---- MODULE Spec2Model ----
(***************************************************************************)
(* Model of the Fastify Todo API.                                          *)
(*                                                                         *)
(* Two variants of todoRoutes exist in the source; a process registers one *)
(* of them:                                                                *)
(*   "api"    /api/todos: TodoController -> TodoService -> TodoRepository  *)
(*            (UUID ids, timestamps, async methods)                        *)
(*   "legacy" /todos: module-level array `todos` and counter `id`          *)
(*                                                                         *)
(* JavaScript objects are modelled with a heap: the repository's array     *)
(* holds references, and what a method returns is a reference or a new     *)
(* array of references, exactly as the code returns it.  Every `await` is  *)
(* a point where another request's task may run; the code between two      *)
(* awaits is one atomic action.                                            *)
(***************************************************************************)
EXTENDS Integers, Sequences, FiniteSets, TLC

(* ------------------------------ bounds -------------------------------- *)

\* Longest request title drawn as an input.
MaxTitleLen == 2
\* Clock reading (in ticks) when the process starts.
Epoch == 9
\* Number of ticks the clock advances in a run.
MaxTicks == 1
\* Number of Todos the legacy POST /todos creates in a run.
MaxLegacy == 2

(* ------------------------------ values -------------------------------- *)

\* The two concurrently served requests.
Tasks == {"reqA", "reqB"}

\* JavaScript null (as a reference) and the -1 of findIndex.
Null == 0
NotFoundIndex == -1

WhiteSpace == {" "}
Chars == WhiteSpace \cup {"a"}
\* Strings are sequences of characters.
Titles == UNION {[1..n -> Chars] : n \in 0..MaxTitleLen}

\* The values randomUUID returns in a run, and the ids requests ask for.
UUIDs == {"u1", "u2"}
NoId == "none"

\* An optional property of a DTO: {} when undefined, {v} when present.
Some(v) == {v}
Absent == {}
The(o) == CHOOSE v \in o : TRUE

UpdateDtos == {[title |-> ti, completed |-> co] :
                 ti \in {Absent} \cup {Some(x) : x \in Titles},
                 co \in {Absent, Some(TRUE), Some(FALSE)}}
NoData == [title |-> Absent, completed |-> Absent]

\* The titles HTTP request bodies carry: empty, blank, to be trimmed, plain.
BodyTitles == {<<>>, <<" ">>, <<"a">>, <<" ", "a">>, <<"a", "a">>}
\* Request bodies: objects with an optional title and an optional completed.
Bodies == {[title |-> ti, completed |-> co] :
             ti \in {Absent} \cup {Some(x) : x \in BodyTitles},
             co \in {Absent, Some(TRUE), Some(FALSE)}}

(* --------------------------- pure functions --------------------------- *)

\* String.prototype.trim: strips leading and trailing white space only.
RECURSIVE trimStart(_)
trimStart(s) ==
  IF s = <<>> THEN s
  ELSE IF Head(s) \in WhiteSpace THEN trimStart(Tail(s)) ELSE s

RECURSIVE trimEnd(_)
trimEnd(s) ==
  IF s = <<>> THEN s
  ELSE IF s[Len(s)] \in WhiteSpace THEN trimEnd(SubSeq(s, 1, Len(s) - 1)) ELSE s

trim(s) == trimEnd(trimStart(s))

\* Date.prototype.toISOString: a fixed-width, zero-padded rendering of the
\* time; modelled with two decimal digits.
toISOString(t) == <<(t \div 10) % 10, t % 10>>

\* Comparison of two ISO strings, character by character (as JS `<=`).
RECURSIVE StrLeq(_, _)
StrLeq(a, b) ==
  IF a = <<>> THEN TRUE
  ELSE IF b = <<>> THEN FALSE
  ELSE IF Head(a) < Head(b) THEN TRUE
  ELSE IF Head(a) > Head(b) THEN FALSE
  ELSE StrLeq(Tail(a), Tail(b))

\* The Todo object literal of TodoRepository.create.
NewTodo(uuid, title, now) ==
  [id |-> uuid, title |-> title, completed |-> FALSE,
   createdAt |-> now, updatedAt |-> now]

\* Mutant: the old record's properties are not carried over.
MergedTodo_noSpread(old, data, now) ==
  [id |-> NoId,
   title |-> IF data.title # Absent THEN The(data.title) ELSE old.title,
   completed |-> IF data.completed # Absent THEN The(data.completed)
                 ELSE old.completed,
   createdAt |-> now,
   updatedAt |-> now]

\* Mutant: update stamps createdAt as well.
MergedTodo_restamp(old, data, now) ==
  [id |-> old.id,
   title |-> IF data.title # Absent THEN The(data.title) ELSE old.title,
   completed |-> IF data.completed # Absent THEN The(data.completed)
                 ELSE old.completed,
   createdAt |-> now,
   updatedAt |-> now]

\* Mutant: update does not refresh updatedAt.
MergedTodo_keepStamp(old, data, now) ==
  [id |-> old.id,
   title |-> IF data.title # Absent THEN The(data.title) ELSE old.title,
   completed |-> IF data.completed # Absent THEN The(data.completed)
                 ELSE old.completed,
   createdAt |-> old.createdAt,
   updatedAt |-> old.updatedAt]

\* The object literal of TodoRepository.update: the old record's properties,
\* overridden by the properties present in data, then updatedAt.
MergedTodo(old, data, now) ==
  [id |-> old.id,
   title |-> IF data.title # Absent THEN The(data.title) ELSE old.title,
   completed |-> IF data.completed # Absent THEN The(data.completed)
                 ELSE old.completed,
   createdAt |-> old.createdAt,
   updatedAt |-> now]

\* Array.prototype.findIndex over a sequence of records, by id.
IndexOf(s, id) ==
  IF \E i \in 1..Len(s) : s[i].id = id
  THEN CHOOSE i \in 1..Len(s) :
         /\ s[i].id = id
         /\ \A j \in 1..(i - 1) : s[j].id # id
  ELSE NotFoundIndex

\* Mutant: splice(index) without a delete count removes the tail as well.
Splice_toEnd(s, i) == SubSeq(s, 1, i - 1)

\* Array.prototype.splice(index, 1) on a sequence.
Splice(s, i) == SubSeq(s, 1, i - 1) \o SubSeq(s, i + 1, Len(s))

Range(s) == {s[i] : i \in 1..Len(s)}

(* ------------------------------- state -------------------------------- *)

VARIABLES
  variant,      \* which todoRoutes the process registered: "api" or "legacy"
  todos,        \* TodoRepository.todos: array of object references
  heap,         \* the Todo objects: reference -> record
  clock,        \* the system clock read by new Date()
  issued,       \* values randomUUID has returned so far
  task,         \* per request: the service call it runs and those of its
                \* locals that are still read (dead locals are dropped)
  legacyTodos,  \* legacy module variable `todos`
  legacyId,     \* legacy module variable `id`
  legacyReply,  \* the reply of the last legacy request
  snap,         \* history: the stored records when the current round of
                \* overlapping requests began
  log,          \* history: per request of the round, what was asked and the
                \* clock reading and uuid its repository call used
  created,      \* history: id -> trimmed form of the title passed to the
                \* createTodo that made it
  retitled,     \* history: ids whose title an update has replaced
  assigned,     \* history: ids the legacy POST /todos has ever assigned
  request,      \* the /api/todos request being served: route, :id, body
  reply,        \* what was sent for it: status and body
  caught,       \* the error the error handler was called with, if it was
  sequence,     \* history: the ids create has stored, in the order of the calls
  removed       \* history: the ids delete has removed

httpVars == <<request, reply, caught>>
orderVars == <<sequence, removed>>
histVars == <<snap, log, created, retitled, httpVars, orderVars>>
apiVars == <<todos, heap, issued, task>>
legacyVars == <<legacyTodos, legacyId, legacyReply, assigned>>
vars == <<variant, clock, apiVars, histVars, legacyVars>>

\* The records the repository holds, in array order.
Store == [i \in 1..Len(todos) |-> heap[todos[i]]]

\* No request is being served; nothing has been sent.
NoHttpRequest == [route |-> "none", id |-> NoId, body |-> NoData]
EmptyBody == <<>>
NoReply == [status |-> 0, body |-> EmptyBody]
\* The error handler has not been called.
NoError ==
  [name |-> "none", message |-> <<>>, statusCode |-> 0,
   isAppError |-> FALSE, validation |-> FALSE]

IdleTask ==
  [op |-> "none", pc |-> "idle", id |-> NoId, ref |-> Null, arr |-> <<>>,
   deleted |-> FALSE, outcome |-> "pending"]

NoRequest == [op |-> "none", id |-> NoId, data |-> NoData, at |-> 0]

\* References held by the repository or by a request's locals.
Live(ts, tk) ==
  (Range(ts) \cup {tk[t].ref : t \in Tasks}
             \cup UNION {Range(tk[t].arr) : t \in Tasks}) \ {Null}

\* Garbage collection with compaction.  References are opaque, so only which
\* references are equal matters: stored objects are renumbered by array
\* position, the other live objects after them.
Renumber(ts, tk) ==
  LET stale == Live(ts, tk) \ Range(ts)
  IN  [a \in Live(ts, tk) |->
         IF a \in Range(ts)
         THEN CHOOSE i \in 1..Len(ts) : ts[i] = a
         ELSE Len(ts) + Cardinality({b \in stale : b <= a})]

MoveRef(m, a) == IF a = Null THEN Null ELSE m[a]

\* A reference not in use.
NewRef == Cardinality(DOMAIN heap) + 1

Init ==
  /\ variant \in {"api", "legacy"}
  /\ todos = <<>>
  /\ heap = <<>>
  /\ clock = Epoch
  /\ issued = {}
  /\ task = [t \in Tasks |-> IdleTask]
  /\ legacyTodos = <<>>
  /\ legacyId = 1
  /\ legacyReply = [status |-> 0, kind |-> "none", id |-> 0]
  /\ snap = <<>>
  /\ log = [t \in Tasks |-> NoRequest]
  /\ created = <<>>
  /\ retitled = {}
  /\ assigned = {}
  /\ request = NoHttpRequest
  /\ reply = NoReply
  /\ caught = NoError
  /\ sequence = <<>>
  /\ removed = {}

(* --------------------------- TodoRepository --------------------------- *)
\* Each method is an async function without an await inside: its body runs
\* to completion when it is called.  A method is modelled by the repository
\* state it leaves and the value its promise resolves to.

\* Mutant: the copy is returned newest first.
findAll_reverse ==
  [todos |-> todos, heap |-> heap,
   ret |-> [i \in 1..Len(todos) |-> todos[Len(todos) + 1 - i]]]

\* findAll: a new array with the same references.
findAll == [todos |-> todos, heap |-> heap, ret |-> todos]

\* Mutant: the predicate of find does not compare ids (`t.id = id`), so the
\* first stored object matches.
findById_first(id) ==
  [todos |-> todos, heap |-> heap,
   ret |-> IF todos = <<>> THEN Null ELSE todos[1]]

\* findById: the stored object itself, or null.
findById(id) ==
  LET i == IndexOf(Store, id)
  IN  [todos |-> todos, heap |-> heap,
       ret |-> IF i = NotFoundIndex THEN Null ELSE todos[i]]

\* Mutant: the new object is put in front (unshift) instead of pushed.
create_unshift(data, uuid) ==
  LET a == NewRef
  IN  [todos |-> <<a>> \o todos,
       heap |-> (a :> NewTodo(uuid, data.title, toISOString(clock))) @@ heap,
       ret |-> a]

\* create: pushes a new object and returns that same object.
create(data, uuid) ==
  LET a == NewRef
  IN  [todos |-> Append(todos, a),
       heap |-> (a :> NewTodo(uuid, data.title, toISOString(clock))) @@ heap,
       ret |-> a]

\* Mutant: a missing id is not reported; the record is stored anew (upsert).
update_upsert(id, data) ==
  LET i == IndexOf(Store, id)
      a == NewRef
  IN  IF i = NotFoundIndex
      THEN [todos |-> Append(todos, a),
            heap |-> (a :> NewTodo(id, IF data.title # Absent
                                       THEN The(data.title) ELSE <<>>,
                                   toISOString(clock))) @@ heap,
            ret |-> a]
      ELSE [todos |-> [todos EXCEPT ![i] = a],
            heap |-> (a :> MergedTodo(heap[todos[i]], data,
                                      toISOString(clock))) @@ heap,
            ret |-> a]

\* Mutant: the old object is spliced out and the new one pushed.
update_moveToEnd(id, data) ==
  LET i == IndexOf(Store, id)
  IN  IF i = NotFoundIndex
      THEN [todos |-> todos, heap |-> heap, ret |-> Null]
      ELSE LET a == NewRef
           IN  [todos |-> Append(Splice(todos, i), a),
                heap |-> (a :> MergedTodo(heap[todos[i]], data,
                                          toISOString(clock))) @@ heap,
                ret |-> a]

\* update: replaces the array slot by a new object and returns it, or null.
update(id, data) ==
  LET i == IndexOf(Store, id)
  IN  IF i = NotFoundIndex
      THEN [todos |-> todos, heap |-> heap, ret |-> Null]
      ELSE LET a == NewRef
           IN  [todos |-> [todos EXCEPT ![i] = a],
                heap |-> (a :> MergedTodo(heap[todos[i]], data,
                                          toISOString(clock))) @@ heap,
                ret |-> a]

\* Mutant: the index is not checked, and splice(-1, 1) removes the last one.
delete_noCheck(id) ==
  LET i == IndexOf(Store, id)
  IN  IF i = NotFoundIndex
      THEN [todos |-> SubSeq(todos, 1, Len(todos) - 1), heap |-> heap,
            ret |-> TRUE]
      ELSE [todos |-> Splice(todos, i), heap |-> heap, ret |-> TRUE]

\* delete: splices the first match out, or returns false.
delete(id) ==
  LET i == IndexOf(Store, id)
  IN  IF i = NotFoundIndex
      THEN [todos |-> todos, heap |-> heap, ret |-> FALSE]
      ELSE [todos |-> Splice(todos, i), heap |-> heap, ret |-> TRUE]

(* ----------------------------- TodoService ---------------------------- *)
\* A request arrives at an idle task.  Requests are served in rounds: a new
\* round starts once every request of the previous one has been answered.
\* reqA names the request of a round that arrived first.
Arrive(t) ==
  /\ variant = "api"
  /\ task[t].pc = "idle"
  /\ \A u \in Tasks : task[u].pc # "done"
  /\ t = "reqB" => task["reqA"].pc # "idle"

\* The task's promise settles: fulfilled ("ok") or rejected with an error.
Settled(tk, outcome) ==
  [tk EXCEPT !.pc = "done", !.outcome = outcome, !.id = NoId,
             !.deleted = FALSE]

\* The repository state r left by a method call, with t's locals now tk.
Commit(t, tk, r) ==
  LET tks == [task EXCEPT ![t] = tk]
      m == Renumber(r.todos, tks)
  IN  /\ todos' = [i \in 1..Len(r.todos) |-> m[r.todos[i]]]
      /\ heap' = [b \in {m[a] : a \in DOMAIN m} |->
                    r.heap[CHOOSE a \in DOMAIN m : m[a] = b]]
      /\ task' = [u \in Tasks |->
                    [tks[u] EXCEPT
                       !.ref = MoveRef(m, @),
                       !.arr = [i \in 1..Len(@) |-> m[@[i]]]]]

\* getAllTodos, up to `await this.todoRepository.findAll()`.
getAllTodos(t) ==
  /\ Arrive(t)
  /\ LET r == findAll
     IN  Commit(t, [IdleTask EXCEPT !.op = "getAllTodos", !.pc = "await_findAll",
                                    !.arr = r.ret], r)
  /\ UNCHANGED <<variant, clock, issued, legacyVars>>

\* getAllTodos, after the await: returns the array.
getAllTodos_return(t) ==
  /\ task[t].op = "getAllTodos" /\ task[t].pc = "await_findAll"
  /\ Commit(t, Settled(task[t], "ok"), findAll)
  /\ UNCHANGED <<variant, clock, issued, legacyVars>>

\* getTodoById, up to `await this.todoRepository.findById(id)`.
getTodoById(t, id) ==
  /\ Arrive(t)
  /\ LET r == findById(id)
     IN  Commit(t, [IdleTask EXCEPT !.op = "getTodoById", !.pc = "await_findById",
                                    !.ref = r.ret], r)
  /\ UNCHANGED <<variant, clock, issued, legacyVars>>

\* Mutant: the null check is missing.
ThrowIfNull_never(ref) == "ok"

\* The outcome of `if (!todo) throw new NotFoundError(...)`.
ThrowIfNull(ref) == IF ref = Null THEN "NotFoundError" ELSE "ok"

\* getTodoById, after the await.
getTodoById_return(t) ==
  /\ task[t].op = "getTodoById" /\ task[t].pc = "await_findById"
  /\ Commit(t, Settled(task[t], ThrowIfNull(task[t].ref)), findAll)
  /\ UNCHANGED <<variant, clock, issued, legacyVars>>

\* Mutant: the title is not trimmed before its length is tested.
IsBlank_noTrim(title) == Len(title) = 0

\* `data.title.trim().length === 0`
IsBlank(title) == Len(trim(title)) = 0

\* Mutant: the title is validated trimmed but stored as given.
CreateData_raw(data) == [title |-> data.title]

\* The CreateTodoDto createTodo hands to the repository.
CreateData(data) == [title |-> trim(data.title)]

\* createTodo, up to `await this.todoRepository.create(...)`; a blank title
\* throws before the repository is called.
createTodo(t, data, uuid) ==
  /\ Arrive(t)
  /\ LET tk == [IdleTask EXCEPT !.op = "createTodo"]
     IN  IF IsBlank(data.title)
         THEN /\ Commit(t, Settled(tk, "ValidationError"), findAll)
              /\ UNCHANGED issued
         ELSE /\ uuid \notin issued
              /\ LET r == create(CreateData(data), uuid)
                 IN  Commit(t, [tk EXCEPT !.pc = "await_create", !.ref = r.ret], r)
              /\ issued' = issued \cup {uuid}
  /\ UNCHANGED <<variant, clock, legacyVars>>

\* createTodo, after the await: returns the created record.
createTodo_return(t) ==
  /\ task[t].op = "createTodo" /\ task[t].pc = "await_create"
  /\ Commit(t, Settled(task[t], "ok"), findAll)
  /\ UNCHANGED <<variant, clock, issued, legacyVars>>

\* updateTodo, up to the existence check `await ...findById(id)`.
updateTodo(t, id) ==
  /\ Arrive(t)
  /\ LET r == findById(id)
     IN  Commit(t, [IdleTask EXCEPT !.op = "updateTodo", !.pc = "await_findById",
                                    !.id = id, !.ref = r.ret], r)
  /\ UNCHANGED <<variant, clock, issued, legacyVars>>

\* Mutant: completed is always handed on, false when it was not given.
UpdateData_completedDefault(data) ==
  [title |-> IF data.title # Absent THEN Some(trim(The(data.title))) ELSE Absent,
   completed |-> IF data.completed # Absent THEN data.completed ELSE Some(FALSE)]

\* The UpdateTodoDto updateTodo hands to the repository.
UpdateData(data) ==
  [title |-> IF data.title # Absent THEN Some(trim(The(data.title))) ELSE Absent,
   completed |-> data.completed]

\* Mutant: the repository is updated before the title is validated.
updateTodo_update_updateFirst(t, data) ==
  /\ task[t].op = "updateTodo" /\ task[t].pc = "await_findById"
  /\ LET tk == task[t]
         r == update(tk.id, UpdateData(data))
     IN  IF tk.ref = Null
         THEN Commit(t, Settled(tk, "NotFoundError"), findAll)
         ELSE IF data.title # Absent /\ Len(trim(The(data.title))) = 0
         THEN Commit(t, Settled([tk EXCEPT !.ref = Null], "ValidationError"), r)
         ELSE Commit(t, [tk EXCEPT !.pc = "await_update", !.id = NoId,
                                   !.ref = r.ret], r)
  /\ UNCHANGED <<variant, clock, issued, legacyVars>>

\* Mutant: the title is validated before the existence check is looked at.
updateTodo_update_validateFirst(t, data) ==
  /\ task[t].op = "updateTodo" /\ task[t].pc = "await_findById"
  /\ LET tk == task[t]
     IN  IF data.title # Absent /\ Len(trim(The(data.title))) = 0
         THEN Commit(t, Settled([tk EXCEPT !.ref = Null], "ValidationError"),
                     findAll)
         ELSE IF tk.ref = Null
         THEN Commit(t, Settled(tk, "NotFoundError"), findAll)
         ELSE LET r == update(tk.id, UpdateData(data))
              IN  Commit(t, [tk EXCEPT !.pc = "await_update", !.id = NoId,
                                       !.ref = r.ret], r)
  /\ UNCHANGED <<variant, clock, issued, legacyVars>>

\* updateTodo, from the existence check to `await ...update(id, updateData)`.
\* The request's DTO is not read before this point; it is an input here.
updateTodo_update(t, data) ==
  /\ task[t].op = "updateTodo" /\ task[t].pc = "await_findById"
  /\ LET tk == task[t]
     IN  IF tk.ref = Null
         THEN Commit(t, Settled(tk, "NotFoundError"), findAll)
         ELSE IF data.title # Absent /\ IsBlank(The(data.title))
         THEN Commit(t, Settled([tk EXCEPT !.ref = Null], "ValidationError"),
                     findAll)
         ELSE LET r == update(tk.id, UpdateData(data))
              IN  Commit(t, [tk EXCEPT !.pc = "await_update", !.id = NoId,
                                       !.ref = r.ret], r)
  /\ UNCHANGED <<variant, clock, issued, legacyVars>>

\* updateTodo, after the update: `if (!updatedTodo) throw new NotFoundError`.
updateTodo_return(t) ==
  /\ task[t].op = "updateTodo" /\ task[t].pc = "await_update"
  /\ Commit(t, Settled(task[t], ThrowIfNull(task[t].ref)), findAll)
  /\ UNCHANGED <<variant, clock, issued, legacyVars>>

\* deleteTodo, up to `await this.todoRepository.delete(id)`.
deleteTodo(t, id) ==
  /\ Arrive(t)
  /\ LET r == delete(id)
     IN  Commit(t, [IdleTask EXCEPT !.op = "deleteTodo", !.pc = "await_delete",
                                    !.deleted = r.ret], r)
  /\ UNCHANGED <<variant, clock, issued, legacyVars>>

\* The outcome of `if (!deleted) throw new NotFoundError(...)`.
ThrowIfFalse(deleted) == IF deleted THEN "ok" ELSE "NotFoundError"

\* deleteTodo, after the await.
deleteTodo_return(t) ==
  /\ task[t].op = "deleteTodo" /\ task[t].pc = "await_delete"
  /\ Commit(t, Settled(task[t], ThrowIfFalse(task[t].deleted)), findAll)
  /\ UNCHANGED <<variant, clock, issued, legacyVars>>

\* The replies of the round are sent; the tasks' locals are dropped.
Reply ==
  /\ \E t \in Tasks : task[t].pc = "done"
  /\ \A t \in Tasks : task[t].pc \in {"idle", "done"}
  /\ task' = [t \in Tasks |-> IdleTask]
  /\ heap' = [a \in 1..Len(todos) |-> heap[a]]
  /\ UNCHANGED <<variant, clock, todos, issued, legacyVars>>

\* Time passes.
Tick ==
  /\ clock < Epoch + MaxTicks
  /\ clock' = clock + 1
  /\ UNCHANGED <<variant, apiVars, histVars, legacyVars>>

\* The continuation of a suspended service call.
Resume(t) ==
  \/ getAllTodos_return(t)
  \/ getTodoById_return(t)
  \/ createTodo_return(t)
  \/ \E data \in UpdateDtos : updateTodo_update(t, data)
  \/ updateTodo_return(t)
  \/ deleteTodo_return(t)

(* ----------------------- requests one at a time ----------------------- *)

NoneInFlight == \A u \in Tasks : task[u].pc = "idle"

ApiNext ==
  \/ \E t \in Tasks : NoneInFlight /\ getAllTodos(t)
  \/ \E t \in Tasks, id \in UUIDs : NoneInFlight /\ getTodoById(t, id)
  \/ \E t \in Tasks, title \in Titles, uuid \in UUIDs :
       NoneInFlight /\ createTodo(t, [title |-> title], uuid)
  \/ \E t \in Tasks, id \in UUIDs : NoneInFlight /\ updateTodo(t, id)
  \/ \E t \in Tasks, id \in UUIDs : NoneInFlight /\ deleteTodo(t, id)
  \/ \E t \in Tasks : Resume(t)
  \/ Reply

(* ------------------------ legacy /todos routes ------------------------ *)
\* The handlers contain no await: each runs to completion as one step.

\* Route parameters as they arrive: strings.
Params == {ToString(i) : i \in 0..(MaxLegacy + 1)} \cup {"abc", "1.5"}

\* Number(request.params.id) followed by Number.isInteger: the parameters
\* that spell an integer convert to it, the others to NaN or a fraction.
Number(p) ==
  IF \E i \in 0..(MaxLegacy + 1) : ToString(i) = p
  THEN [isInteger |-> TRUE,
        value |-> CHOOSE i \in 0..(MaxLegacy + 1) : ToString(i) = p]
  ELSE [isInteger |-> FALSE, value |-> 0]

\* todos.find((t) => t.id === todoId): position of the first match.
LegacyFind(todoId) == IndexOf(legacyTodos, todoId)

LegacyNewTodo(title) == [id |-> legacyId, title |-> title, completed |-> FALSE]

Replied(status, kind, todoId) ==
  legacyReply' = [status |-> status, kind |-> kind, id |-> todoId]

\* The top-level keys of the body a legacy handler sends, by kind of reply.
LegacyBodyKeys(kind) ==
  CASE kind = "message" -> {"message"}
    [] kind = "todo" -> {"id", "title", "completed"}
    [] OTHER -> {}

HttpOk == 200
HttpCreated == 201
HttpNoContent == 204
HttpBadRequest == 400
HttpNotFound == 404

\* GET /todos
legacyGet ==
  /\ variant = "legacy"
  /\ Replied(HttpOk, "list", 0)
  /\ UNCHANGED <<variant, clock, apiVars, histVars, legacyTodos, legacyId, assigned>>

\* POST /todos: title is request.body.title, present or undefined.
legacyPost(title) ==
  /\ variant = "legacy"
  /\ legacyId <= MaxLegacy
  /\ legacyTodos' = Append(legacyTodos, LegacyNewTodo(title))
  /\ legacyId' = legacyId + 1
  /\ assigned' = assigned \cup {legacyId}
  /\ Replied(HttpCreated, "todo", legacyId)
  /\ UNCHANGED <<variant, clock, apiVars, histVars>>

\* PUT /todos/:id
legacyPut(param) ==
  /\ variant = "legacy"
  /\ LET todoId == Number(param)
         i == LegacyFind(todoId.value)
     IN  IF ~todoId.isInteger
         THEN Replied(HttpBadRequest, "message", 0) /\ UNCHANGED legacyTodos
         ELSE IF i = NotFoundIndex
         THEN Replied(HttpNotFound, "message", 0) /\ UNCHANGED legacyTodos
         ELSE /\ legacyTodos' = [legacyTodos EXCEPT ![i].completed = TRUE]
              /\ Replied(HttpOk, "todo", todoId.value)
  /\ UNCHANGED <<variant, clock, apiVars, histVars, legacyId, assigned>>

\* DELETE /todos/:id
legacyDelete(param) ==
  /\ variant = "legacy"
  /\ LET todoId == Number(param)
         i == LegacyFind(todoId.value)
     IN  IF ~todoId.isInteger
         THEN Replied(HttpBadRequest, "message", 0) /\ UNCHANGED legacyTodos
         ELSE IF i = NotFoundIndex
         THEN Replied(HttpNotFound, "message", 0) /\ UNCHANGED legacyTodos
         ELSE /\ legacyTodos' = SelectSeq(legacyTodos,
                                          LAMBDA x : x.id # todoId.value)
              /\ Replied(HttpNoContent, "empty", 0)
  /\ UNCHANGED <<variant, clock, apiVars, histVars, legacyId, assigned>>

LegacyNext ==
  \/ legacyGet
  \/ \E body \in Bodies : legacyPost(body.title)
  \/ \E param \in Params : legacyPut(param)
  \/ \E param \in Params : legacyDelete(param)

Next ==
  \/ ApiNext /\ UNCHANGED histVars
  \/ LegacyNext
  \/ Tick

Spec == Init /\ [][Next]_vars

(* --------------- requests one at a time, with provenance -------------- *)
\* The same service calls, recording which title each stored id was created
\* from and which ids had their title replaced.  The clock stands still.

TripNext ==
  \/ \E t \in Tasks : NoneInFlight /\ getAllTodos(t) /\ UNCHANGED histVars
  \/ \E t \in Tasks, id \in UUIDs :
       NoneInFlight /\ getTodoById(t, id) /\ UNCHANGED histVars
  \/ \E t \in Tasks, title \in Titles, uuid \in UUIDs :
       /\ NoneInFlight /\ createTodo(t, [title |-> title], uuid)
       /\ created' = IF task'[t].pc = "await_create"
                     THEN (uuid :> trim(title)) @@ created ELSE created
       /\ UNCHANGED <<snap, log, retitled, httpVars, orderVars>>
  \/ \E t \in Tasks, id \in UUIDs :
       NoneInFlight /\ updateTodo(t, id) /\ UNCHANGED histVars
  \/ \E t \in Tasks, id \in UUIDs :
       NoneInFlight /\ deleteTodo(t, id) /\ UNCHANGED histVars
  \/ \E t \in Tasks, data \in UpdateDtos :
       /\ updateTodo_update(t, data)
       /\ retitled' = IF task'[t].pc = "await_update" /\ data.title # Absent
                      THEN retitled \cup {task[t].id} ELSE retitled
       /\ UNCHANGED <<snap, log, created, httpVars, orderVars>>
  \/ \E t \in Tasks :
       /\ \/ getAllTodos_return(t) \/ getTodoById_return(t)
          \/ createTodo_return(t) \/ updateTodo_return(t)
          \/ deleteTodo_return(t)
       /\ UNCHANGED histVars
  \/ Reply /\ UNCHANGED histVars

SpecTrip == Init /\ [][TripNext]_vars

(* ------------- a caller that writes to what it was handed ------------- *)
\* What a method returned is in the hands of its caller once the call has
\* settled.  These two actions are a caller assigning to a property of a
\* returned Todo, and removing the last element of a returned array.

callerMutatesTodo(t) ==
  /\ task[t].pc = "done" /\ task[t].ref # Null
  /\ heap' = [heap EXCEPT ![task[t].ref].completed = ~@]
  /\ UNCHANGED <<variant, clock, todos, issued, task, histVars, legacyVars>>

callerMutatesArray(t) ==
  /\ task[t].pc = "done" /\ task[t].arr # <<>>
  /\ LET tk == [task[t] EXCEPT !.arr = SubSeq(@, 1, Len(@) - 1)]
     IN  Commit(t, tk, findAll)
  /\ UNCHANGED <<variant, clock, issued, histVars, legacyVars>>

AliasNext ==
  \/ ApiNext /\ UNCHANGED histVars
  \/ \E t \in Tasks : callerMutatesTodo(t)
  \/ \E t \in Tasks : callerMutatesArray(t)

SpecAlias == Init /\ [][AliasNext]_vars

(* -------------------------- racing requests --------------------------- *)
\* One Todo is created; then requests to update or delete it arrive, up to
\* two of them overlapping, their steps interleaved at the awaits.  snap
\* and log record the round for comparison with its sequential orders.  The
\* clock stands still.

StartRound == snap' = IF NoneInFlight THEN Store ELSE snap

Logged(t, op, id, data, at) ==
  log' = [log EXCEPT ![t] = [op |-> op, id |-> id, data |-> data, at |-> at]]

RaceNext ==
  \/ \E title \in Titles, uuid \in UUIDs :
       /\ NoneInFlight /\ issued = {}
       /\ createTodo("reqA", [title |-> title], uuid)
       /\ StartRound
       /\ Logged("reqA", "createTodo", uuid,
                 [title |-> Some(title), completed |-> Absent], clock)
       /\ UNCHANGED <<created, retitled, httpVars, orderVars>>
  \/ \E t \in Tasks, id \in issued :
       /\ updateTodo(t, id)
       /\ StartRound
       /\ Logged(t, "updateTodo", id, NoData, clock)
       /\ UNCHANGED <<created, retitled, httpVars, orderVars>>
  \/ \E t \in Tasks, id \in issued :
       /\ deleteTodo(t, id)
       /\ StartRound
       /\ Logged(t, "deleteTodo", id, NoData, clock)
       /\ UNCHANGED <<created, retitled, httpVars, orderVars>>
  \/ \E t \in Tasks, data \in UpdateDtos :
       /\ updateTodo_update(t, data)
       /\ Logged(t, "updateTodo", log[t].id, data, clock)
       /\ UNCHANGED <<snap, created, retitled, httpVars, orderVars>>
  \/ \E t \in Tasks :
       /\ createTodo_return(t) \/ updateTodo_return(t) \/ deleteTodo_return(t)
       /\ UNCHANGED histVars
  \/ /\ Reply
     /\ snap' = <<>>
     /\ log' = [t \in Tasks |-> NoRequest]
     /\ UNCHANGED <<created, retitled, httpVars, orderVars>>

SpecRace == Init /\ [][RaceNext]_vars

(* ----------------------- /api/todos over HTTP -------------------------- *)
\* A request passes the route's schemas, then the controller calls the
\* service; what the service throws goes, uncaught by the controller, to the
\* error handler.  Requests are served one at a time, and a request's body
\* is one that was parsed as JSON.

\* :id route parameters as they arrive: the UUIDs, and strings that are not.
IdParams == UUIDs \cup {"abc", "1"}

\* Mutant: the parameter is only required to be a string.
IsUuid_anyString(p) == TRUE

\* z.string().uuid(): the strings of UUID form.
IsUuid(p) == p \in UUIDs

\* todoIdParamSchema
todoIdParamSchema(params) == IsUuid(params.id)

\* Mutant: the schema has no upper limit.
titleSchema_noMax(title) == Len(title) >= 1

\* z.string().min(1).max(200)
titleSchema(title) == Len(title) >= 1 /\ Len(title) <= 200

\* createTodoSchema: title is required.
createTodoSchema(body) == body.title # Absent /\ titleSchema(The(body.title))

\* updateTodoSchema: title and completed are optional.
updateTodoSchema(body) == body.title # Absent => titleSchema(The(body.title))

\* Error objects: the class chain decides instanceof AppError; validation is
\* the property Fastify sets on a schema validation failure.
AppError(name, message, statusCode) ==
  [name |-> name, message |-> message, statusCode |-> statusCode,
   isAppError |-> TRUE, validation |-> FALSE]

ValidationError(message) == AppError("ValidationError", message, 400)

NotFoundError(message) == AppError("NotFoundError", message, 404)

\* The error Fastify raises when a schema rejects the request.
SchemaValidationFailure ==
  [name |-> "Error", message |-> <<"schema">>, statusCode |-> 400,
   isAppError |-> FALSE, validation |-> TRUE]

\* Messages are kept as tuples of their parts.
BlankTitleMessage == <<"blankTitle">>
NotFoundMessage(id) == <<"notFound", id>>
ValidationMessage == <<"validationError">>
InternalMessage == <<"internalError">>

\* What a failed service call threw.
Thrown(outcome, id) ==
  IF outcome = "ValidationError" THEN ValidationError(BlankTitleMessage)
  ELSE NotFoundError(NotFoundMessage(id))

ErrorResponse(message, statusCode) ==
  [error |-> [message |-> message, statusCode |-> statusCode]]

ApiResponse(data) == [data |-> data]

\* Mutant: the AppError branch answers with a fixed status.
errorHandler_fixedStatus(error) ==
  IF error.isAppError
  THEN [status |-> 400,
        body |-> ErrorResponse(error.message, error.statusCode)]
  ELSE IF error.validation
  THEN [status |-> 400, body |-> ErrorResponse(ValidationMessage, 400)]
  ELSE [status |-> 500, body |-> ErrorResponse(InternalMessage, 500)]

\* Mutant: the last branch sends the message of the error it was given.
errorHandler_leaky(error) ==
  IF error.isAppError
  THEN [status |-> error.statusCode,
        body |-> ErrorResponse(error.message, error.statusCode)]
  ELSE IF error.validation
  THEN [status |-> 400, body |-> ErrorResponse(ValidationMessage, 400)]
  ELSE [status |-> 500, body |-> ErrorResponse(error.message, 500)]

\* The handler createApp installs with setErrorHandler.
errorHandler(error) ==
  IF error.isAppError
  THEN [status |-> error.statusCode,
        body |-> ErrorResponse(error.message, error.statusCode)]
  ELSE IF error.validation
  THEN [status |-> 400, body |-> ErrorResponse(ValidationMessage, 400)]
  ELSE [status |-> 500, body |-> ErrorResponse(InternalMessage, 500)]

\* TodoController: what each method sends once its service call returned.
TodoController_getTodos(list) == [status |-> 200, body |-> ApiResponse(list)]

TodoController_getTodoById(todo) == [status |-> 200, body |-> ApiResponse(todo)]

\* Mutant: create answers 200 like the other methods.
TodoController_createTodo_ok(todo) == [status |-> 200, body |-> ApiResponse(todo)]

TodoController_createTodo(todo) == [status |-> 201, body |-> ApiResponse(todo)]

TodoController_updateTodo(todo) == [status |-> 200, body |-> ApiResponse(todo)]

TodoController_deleteTodo == [status |-> 204, body |-> EmptyBody]

\* What is sent for request req once its service call tk has settled; hp is
\* the heap then.
Answer(req, tk, hp) ==
  IF tk.outcome # "ok" THEN errorHandler(Thrown(tk.outcome, req.id))
  ELSE CASE req.route = "getTodos" ->
              TodoController_getTodos([i \in 1..Len(tk.arr) |-> hp[tk.arr[i]]])
         [] req.route = "getTodoById" -> TodoController_getTodoById(hp[tk.ref])
         [] req.route = "createTodo" -> TodoController_createTodo(hp[tk.ref])
         [] req.route = "updateTodo" -> TodoController_updateTodo(hp[tk.ref])
         [] req.route = "deleteTodo" -> TodoController_deleteTodo

\* A request is taken up when none is being served.
Serve(route, id, body) ==
  /\ NoneInFlight /\ request.route = "none"
  /\ request' = [route |-> route, id |-> id, body |-> body]

\* The reply of task t's request, sent in the step in which t settles.
Respond(t) ==
  /\ reply' = IF task'[t].pc = "done" THEN Answer(request', task'[t], heap')
              ELSE NoReply
  /\ caught' = IF task'[t].pc = "done" /\ task'[t].outcome # "ok"
              THEN Thrown(task'[t].outcome, request'.id) ELSE NoError

\* A schema rejected the request: the handler is not called.
Reject ==
  /\ variant = "api"
  /\ caught' = SchemaValidationFailure
  /\ reply' = errorHandler(SchemaValidationFailure)
  /\ UNCHANGED <<variant, clock, apiVars, legacyVars, snap, log, created, retitled, orderVars>>

\* GET /api/todos
getTodosRoute ==
  /\ Serve("getTodos", NoId, NoData)
  /\ \E t \in Tasks : getAllTodos(t) /\ Respond(t)
  /\ UNCHANGED <<snap, log, created, retitled, orderVars>>

\* GET /api/todos/:id
getTodoByIdRoute(id) ==
  /\ Serve("getTodoById", id, NoData)
  /\ IF todoIdParamSchema([id |-> id])
     THEN /\ \E t \in Tasks : getTodoById(t, id) /\ Respond(t)
          /\ UNCHANGED <<snap, log, created, retitled, orderVars>>
     ELSE Reject

\* POST /api/todos
createTodoRoute(body) ==
  /\ Serve("createTodo", NoId, body)
  /\ IF createTodoSchema(body)
     THEN /\ \E t \in Tasks, uuid \in UUIDs :
               createTodo(t, [title |-> The(body.title)], uuid) /\ Respond(t)
          /\ UNCHANGED <<snap, log, created, retitled, orderVars>>
     ELSE Reject

\* PATCH /api/todos/:id
updateTodoRoute(id, body) ==
  /\ Serve("updateTodo", id, body)
  /\ IF todoIdParamSchema([id |-> id]) /\ updateTodoSchema(body)
     THEN /\ \E t \in Tasks : updateTodo(t, id) /\ Respond(t)
          /\ UNCHANGED <<snap, log, created, retitled, orderVars>>
     ELSE Reject

\* DELETE /api/todos/:id
deleteTodoRoute(id) ==
  /\ Serve("deleteTodo", id, NoData)
  /\ IF todoIdParamSchema([id |-> id])
     THEN /\ \E t \in Tasks : deleteTodo(t, id) /\ Respond(t)
          /\ UNCHANGED <<snap, log, created, retitled, orderVars>>
     ELSE Reject

\* The service call of the request being served goes on after an await; the
\* controller sends the reply when it has settled.
Continue(t) ==
  /\ request.route # "none"
  /\ UNCHANGED request
  /\ \/ getAllTodos_return(t)
     \/ getTodoById_return(t)
     \/ createTodo_return(t)
     \/ updateTodo_update(t, request.body)
     \/ updateTodo_return(t)
     \/ deleteTodo_return(t)
  /\ Respond(t)
  /\ UNCHANGED <<snap, log, created, retitled, orderVars>>

\* The reply has gone out; the request is over.
Sent ==
  /\ variant = "api" /\ reply.status # 0
  /\ \/ Reply
     \/ /\ NoneInFlight
        /\ UNCHANGED <<variant, clock, apiVars, legacyVars>>
  /\ request' = NoHttpRequest
  /\ reply' = NoReply
  /\ caught' = NoError
  /\ UNCHANGED <<snap, log, created, retitled, orderVars>>

HttpNext ==
  \/ getTodosRoute
  \/ \E id \in IdParams : getTodoByIdRoute(id)
  \/ \E body \in Bodies : body.completed = Absent /\ createTodoRoute(body)
  \/ \E id \in IdParams, body \in Bodies : updateTodoRoute(id, body)
  \/ \E id \in IdParams : deleteTodoRoute(id)
  \/ \E t \in Tasks : Continue(t)
  \/ Sent
  \/ LegacyNext
  \/ Tick

SpecHttp == Init /\ [][HttpNext]_vars

(* ------------- requests one at a time, with creation order ------------ *)
\* The same service calls, recording the ids in the order in which create
\* stored them and the ids delete removed.  The clock stands still.

OrderNext ==
  \/ \E t \in Tasks : NoneInFlight /\ getAllTodos(t) /\ UNCHANGED histVars
  \/ \E t \in Tasks, title \in Titles, uuid \in UUIDs :
       /\ NoneInFlight /\ createTodo(t, [title |-> title], uuid)
       /\ sequence' = IF task'[t].pc = "await_create"
                      THEN Append(sequence, uuid) ELSE sequence
       /\ UNCHANGED <<snap, log, created, retitled, httpVars, removed>>
  \/ \E t \in Tasks, id \in UUIDs :
       NoneInFlight /\ updateTodo(t, id) /\ UNCHANGED histVars
  \/ \E t \in Tasks, id \in UUIDs :
       /\ NoneInFlight /\ deleteTodo(t, id)
       /\ removed' = IF task'[t].deleted THEN removed \cup {id} ELSE removed
       /\ UNCHANGED <<snap, log, created, retitled, httpVars, sequence>>
  \/ \E t \in Tasks, data \in UpdateDtos :
       updateTodo_update(t, data) /\ UNCHANGED histVars
  \/ \E t \in Tasks :
       /\ \/ getAllTodos_return(t) \/ createTodo_return(t)
          \/ updateTodo_return(t) \/ deleteTodo_return(t)
       /\ UNCHANGED histVars
  \/ Reply /\ UNCHANGED histVars

SpecOrder == Init /\ [][OrderNext]_vars

(* ----------------------- titles at the length limit ------------------- *)
\* POST and PATCH requests whose titles are around the limit of the schema:
\* 200 characters, 201 characters, and 200 characters of which the first is
\* a space.  The clock stands still.

Repeat(c, n) == [i \in 1..n |-> c]

LimitTitles ==
  {<<>>, <<"a">>, Repeat("a", 200), Repeat("a", 201),
   <<" ">> \o Repeat("a", 199)}

LimitBodies ==
  {[title |-> ti, completed |-> Absent] :
     ti \in {Absent} \cup {Some(x) : x \in LimitTitles}}

TitleNext ==
  \/ \E body \in LimitBodies : createTodoRoute(body)
  \/ \E id \in IdParams, body \in LimitBodies : updateTodoRoute(id, body)
  \/ \E t \in Tasks :
       /\ request.route # "none"
       /\ UNCHANGED request
       /\ \/ createTodo_return(t)
          \/ updateTodo_update(t, request.body)
          \/ updateTodo_return(t)
       /\ Respond(t)
       /\ UNCHANGED <<snap, log, created, retitled, orderVars>>
  \/ Sent

SpecTitle == Init /\ [][TitleNext]_vars

(* ------------------------ the error handler alone --------------------- *)
\* The handler is a function of the error it is called with.  Here it is
\* called with errors of every kind: AppErrors of the three classes, and
\* errors of other classes with and without the validation property.

Errors ==
  {AppError(n, m, c) :
     n \in {"AppError", "ValidationError", "NotFoundError"},
     m \in {<<"x">>, <<"y">>, <<"secret">>},
     c \in {400, 404, 409, 500}}
  \cup
  {[name |-> n, message |-> m, statusCode |-> c,
    isAppError |-> FALSE, validation |-> v] :
     n \in {"Error", "TypeError", "SyntaxError"},
     m \in {<<"x">>, <<"y">>, <<"secret">>},
     c \in {400, 404, 409, 500},
     v \in BOOLEAN}

\* Fastify calls the handler with an error.
handleError(e) ==
  /\ variant = "api"
  /\ caught' = e
  /\ reply' = errorHandler(e)
  /\ UNCHANGED <<variant, clock, apiVars, legacyVars, request,
                 snap, log, created, retitled, orderVars>>

HandlerNext == \E e \in Errors : handleError(e)

SpecHandler == Init /\ [][HandlerNext]_vars

(* ------------------------------- claims ------------------------------- *)

Ids(s) == [i \in 1..Len(s) |-> s[i].id]

OnlyWhiteSpace(title) == \A k \in 1..Len(title) : title[k] \in WhiteSpace

\* C1: every Todo the repository holds has a title that is not empty, is not
\* white space only, and has no leading or trailing white space, whatever
\* createTodo, updateTodo and deleteTodo calls ran, failed ones included.
C1_TitleNormalized ==
  \A i \in 1..Len(Store) :
    LET title == Store[i].title
    IN  /\ title # <<>>
        /\ ~OnlyWhiteSpace(title)
        /\ title[1] \notin WhiteSpace
        /\ title[Len(title)] \notin WhiteSpace

\* C1 witness: a Todo is stored and an updateTodo with a blank title has
\* just been rejected.
C1_Witness ==
  /\ Len(todos) >= 1
  /\ \E t \in Tasks : /\ task[t].op = "updateTodo"
                      /\ task[t].outcome = "ValidationError"

\* C2: createTodo with a title made of white space only fails with
\* ValidationError and the repository holds exactly what it held before.
C2_BlankCreateRejected ==
  [][\A t \in Tasks, title \in Titles, uuid \in UUIDs :
       (createTodo(t, [title |-> title], uuid) /\ OnlyWhiteSpace(title))
         => /\ task'[t].pc = "done"
            /\ task'[t].outcome = "ValidationError"
            /\ Store' = Store]_vars

\* C2 witness: a createTodo has failed with ValidationError while the
\* repository holds a Todo.
C2_Witness ==
  /\ Len(todos) >= 1
  /\ \E t \in Tasks : /\ task[t].op = "createTodo"
                      /\ task[t].outcome = "ValidationError"

NoDuplicate(ids) ==
  \A i, j \in 1..Len(ids) : i # j => ids[i] # ids[j]

\* The ids of a store change only by appending an unused id at the end or by
\* removing one entry: no entry's id is ever replaced.
IdsStep(old, new, used) ==
  \/ new = old
  \/ \E x \in Range(new) \ used : new = Append(old, x)
  \/ \E i \in 1..Len(old) : new = Splice(old, i)

\* C3: in both stores no two Todos share an id; a step changes the ids of a
\* store only by appending an id never used before (with randomUUID fresh;
\* in the legacy store also not the id of a deleted Todo) or by deleting one
\* Todo, so a stored Todo keeps its id.
C3_IdsUniqueAndImmutable ==
  /\ [](NoDuplicate(Ids(Store)) /\ NoDuplicate(Ids(legacyTodos)))
  /\ [][/\ IdsStep(Ids(Store), Ids(Store'), issued)
        /\ IdsStep(Ids(legacyTodos), Ids(legacyTodos'), assigned)]_vars

\* C3 witness: the legacy store holds a Todo created after another one was
\* deleted.
C3_Witness ==
  \E i \in 1..Len(legacyTodos) :
    \E a \in assigned : /\ a \notin Range(Ids(legacyTodos))
                        /\ a < legacyTodos[i].id

\* C4: every stored Todo has updatedAt >= createdAt (as ISO strings), and a
\* step never changes the createdAt of a Todo that stays stored.
C4_Timestamps ==
  /\ [](\A i \in 1..Len(Store) : StrLeq(Store[i].createdAt, Store[i].updatedAt))
  /\ [][\A i \in 1..Len(Store), j \in 1..Len(Store') :
          Store[i].id = Store'[j].id
            => Store'[j].createdAt = Store[i].createdAt]_vars

\* C4 witness: a Todo updated after the clock advanced past a digit carry.
C4_Witness ==
  \E i \in 1..Len(Store) :
    /\ Store[i].createdAt = toISOString(Epoch)
    /\ Store[i].updatedAt = toISOString(Epoch + 1)

\* C9: a createTodo that reaches the repository appends exactly one record
\* at the end: its id was not in the store, completed is false, both
\* timestamps are the current time, the records stored before are unchanged,
\* and the record returned is the appended one.
C9_CreateAppends ==
  [][\A t \in Tasks :
       /\ \A title \in Titles, uuid \in UUIDs :
            (createTodo(t, [title |-> title], uuid)
               /\ task'[t].pc = "await_create")
              => LET n == Len(Store)
                 IN  /\ Len(Store') = n + 1
                     /\ \A i \in 1..n : Store'[i] = Store[i]
                     /\ Store'[n + 1].id = uuid
                     /\ uuid \notin Range(Ids(Store))
                     /\ Store'[n + 1].completed = FALSE
                     /\ Store'[n + 1].createdAt = toISOString(clock)
                     /\ Store'[n + 1].updatedAt = toISOString(clock)
                     /\ task'[t].ref = todos'[n + 1]
       /\ createTodo_return(t)
            => /\ task'[t].outcome = "ok"
               /\ task'[t].ref # Null
               /\ heap'[task'[t].ref] = heap[task[t].ref]
               /\ Store' = Store]_vars

\* C9 witness: a second Todo has just been appended.
C9_Witness ==
  /\ Len(todos) = 2
  /\ \E t \in Tasks : task[t].pc = "await_create" /\ task[t].ref = todos[2]

\* C10: deleteTodo of an id that is not stored leaves the store unchanged and
\* fails with NotFoundError; after any deleteTodo step the id is not stored,
\* so a second deleteTodo of the same id right after fails as well.
C10_DeleteMissing ==
  [][\A t \in Tasks :
       /\ \A id \in UUIDs :
            deleteTodo(t, id)
              => /\ id \notin Range(Ids(Store'))
                 /\ id \notin Range(Ids(Store))
                      => (Store' = Store /\ ~task'[t].deleted)
       /\ (deleteTodo_return(t) /\ ~task[t].deleted)
            => (task'[t].outcome = "NotFoundError" /\ Store' = Store)]_vars

\* C10 witness: a deleteTodo has failed with NotFoundError on a store that
\* still holds a Todo.
C10_Witness ==
  /\ Len(todos) >= 1
  /\ \E t \in Tasks : /\ task[t].op = "deleteTodo"
                      /\ task[t].outcome = "NotFoundError"

\* getTodoById of a stored id made by createTodo, not in the set `changed`,
\* finds a record with that id and the trimmed title createTodo was given,
\* and then returns that record.
RoundTrip(changed) ==
  \A t \in Tasks :
    /\ \A id \in (DOMAIN created \cap Range(Ids(Store))) \ changed :
         getTodoById(t, id)
           => /\ task'[t].ref # Null
              /\ heap'[task'[t].ref].id = id
              /\ heap'[task'[t].ref].title = created[id]
    /\ (getTodoById_return(t) /\ task[t].ref # Null)
         => /\ task'[t].outcome = "ok"
            /\ task'[t].ref # Null
            /\ heap'[task'[t].ref] = heap[task[t].ref]

\* C8 as stated: createTodo(title), then getTodoById of the returned id with
\* no delete of that id in between, yields the same id and the trimmed title.
C8_RoundTripAsStated == [][RoundTrip({})]_vars

\* C8 amended: the same, when moreover no updateTodo replaced the title of
\* that id in between.
C8_RoundTrip == [][RoundTrip(retitled)]_vars

\* C8 witness: getTodoById has returned a Todo that was created and never
\* retitled, while another stored Todo has been retitled.
C8_Witness ==
  \E t \in Tasks :
    /\ task[t].op = "getTodoById" /\ task[t].outcome = "ok"
    /\ heap[task[t].ref].id \in DOMAIN created \ retitled
    /\ heap[task[t].ref].title = created[heap[task[t].ref].id]
    /\ retitled \cap Range(Ids(Store)) # {}

\* C5 as stated: whatever a caller does to a Todo or an array the
\* repository returned, the repository holds the same records afterwards.
C5_DefensiveCopies ==
  [][\A t \in Tasks :
       (callerMutatesTodo(t) \/ callerMutatesArray(t)) => Store' = Store]_vars

Stepped(t) == task'[t].pc # task[t].pc

\* An updateTodo that has passed its existence check and has not yet called
\* the repository's update.
BetweenCheckAndUpdate(t) ==
  /\ task[t].op = "updateTodo" /\ task[t].pc = "await_findById"
  /\ task[t].ref # Null

\* C6 as stated: while a request is between its existence check and its
\* repository mutation, no other request's step changes the repository.
C6_SingleStepAsStated ==
  [][\A t \in Tasks :
       (BetweenCheckAndUpdate(t) /\ ~Stepped(t)) => Store' = Store]_vars

\* C6 amended: each repository call is one atomic step, and a request
\* changes the repository only in the step in which it arrives (createTodo,
\* deleteTodo) or, for updateTodo, in its second step; when the Todo of an
\* updateTodo was deleted between its existence check and that second step,
\* the updateTodo leaves the repository unchanged and fails.
C6_StepsOfAnOperation ==
  [][\A t \in Tasks :
       /\ (Stepped(t) /\ Store' # Store)
            => \/ task[t].pc = "idle" /\ task'[t].op \in {"createTodo", "deleteTodo"}
               \/ BetweenCheckAndUpdate(t)
       /\ (BetweenCheckAndUpdate(t) /\ Stepped(t)
             /\ task[t].id \notin Range(Ids(Store)))
            => /\ Store' = Store
               /\ \/ task'[t].outcome \in {"NotFoundError", "ValidationError"}
                  \/ task'[t].pc = "await_update" /\ task'[t].ref = Null
       /\ (task[t].pc = "await_update" /\ task[t].ref = Null /\ Stepped(t))
            => task'[t].outcome = "NotFoundError"]_vars

\* C6 witness: an updateTodo has passed its existence check, and the Todo
\* has been deleted by the other request before the update is called.
C6_Witness ==
  \E t \in Tasks :
    /\ BetweenCheckAndUpdate(t)
    /\ task[t].id \notin Range(Ids(Store))

\* What a settled request answers: its outcome and the record it returns.
Response(t) ==
  [outcome |-> task[t].outcome,
   body |-> IF task[t].outcome = "ok" /\ task[t].ref # Null
            THEN <<heap[task[t].ref]>> ELSE <<>>]

\* A request served alone on the records s: the records it leaves and what
\* it answers.
Alone(s, q) ==
  LET i == IndexOf(s, q.id)
      fail(e) == [store |-> s, outcome |-> e, body |-> <<>>]
  IN  CASE q.op = "createTodo" ->
             IF IsBlank(The(q.data.title)) THEN fail("ValidationError")
             ELSE LET td == NewTodo(q.id, trim(The(q.data.title)),
                                    toISOString(q.at))
                  IN  [store |-> Append(s, td), outcome |-> "ok", body |-> <<td>>]
        [] q.op = "updateTodo" ->
             IF i = NotFoundIndex THEN fail("NotFoundError")
             ELSE IF q.data.title # Absent /\ IsBlank(The(q.data.title))
             THEN fail("ValidationError")
             ELSE LET td == MergedTodo(s[i], UpdateData(q.data),
                                       toISOString(q.at))
                  IN  [store |-> [s EXCEPT ![i] = td], outcome |-> "ok",
                       body |-> <<td>>]
        [] q.op = "deleteTodo" ->
             IF i = NotFoundIndex THEN fail("NotFoundError")
             ELSE [store |-> Splice(s, i), outcome |-> "ok", body |-> <<>>]

\* The round's requests served one after the other in the given order leave
\* the repository as it is now and answer what the requests answered.
SameAsInOrder(order) ==
  LET first == Alone(snap, log[order[1]])
      last == IF Len(order) = 1 THEN first
              ELSE Alone(first.store, log[order[2]])
  IN  /\ last.store = Store
      /\ Response(order[1]) = [outcome |-> first.outcome, body |-> first.body]
      /\ Len(order) = 2
           => Response(order[2]) = [outcome |-> last.outcome, body |-> last.body]

RoundSettled ==
  /\ \E t \in Tasks : task[t].pc = "done"
  /\ \A t \in Tasks : task[t].pc \in {"idle", "done"}

\* C7: when the requests of a round have settled, their answers and the
\* repository equal those of serving them alone one after the other, in one
\* of the two orders; an updateTodo that answers ok returns a record.
C7_Serializable ==
  RoundSettled =>
    /\ IF \A t \in Tasks : task[t].pc = "done"
       THEN SameAsInOrder(<<"reqA", "reqB">>) \/ SameAsInOrder(<<"reqB", "reqA">>)
       ELSE SameAsInOrder(<<"reqA">>)
    /\ \A t \in Tasks :
         (task[t].op = "updateTodo" /\ task[t].outcome = "ok")
           => task[t].ref # Null

\* C7 witness: an updateTodo found its Todo, the other request deleted it
\* before the update ran, and the updateTodo failed with NotFoundError while
\* the deleteTodo succeeded.
C7_Witness ==
  /\ log["reqA"].op = "updateTodo" /\ log["reqB"].op = "deleteTodo"
  /\ log["reqA"].id = log["reqB"].id
  /\ log["reqA"].id \in Range(Ids(snap))
  /\ log["reqA"].data.title # Absent /\ ~IsBlank(The(log["reqA"].data.title))
  /\ task["reqA"].pc = "done" /\ task["reqA"].outcome = "NotFoundError"
  /\ task["reqB"].pc = "done" /\ task["reqB"].outcome = "ok"

C13_UpdateErrors ==
  [][\A t \in Tasks, data \in UpdateDtos :
       /\ \A id \in UUIDs :
            (updateTodo(t, id) /\ id \notin Range(Ids(Store)))
              => (task'[t].ref = Null /\ Store' = Store)
       /\ (updateTodo_update(t, data) /\ task[t].ref = Null)
            => /\ task'[t].pc = "done"
               /\ task'[t].outcome = "NotFoundError"
               /\ Store' = Store
       /\ (updateTodo_update(t, data) /\ task[t].ref # Null
             /\ data.title # Absent /\ OnlyWhiteSpace(The(data.title)))
            => /\ task'[t].pc = "done"
               /\ task'[t].outcome = "ValidationError"
               /\ Store' = Store]_vars

\* C13 witness: an updateTodo of an id that is not stored has failed with
\* NotFoundError while the store holds another Todo.
C13_Witness ==
  /\ Len(todos) >= 1
  /\ \E t \in Tasks : /\ task[t].op = "updateTodo"
                      /\ task[t].outcome = "NotFoundError"

\* C14: getTodoById finds nothing exactly when no stored Todo has the id and
\* then fails with NotFoundError; otherwise it returns the stored record
\* with that id.  Neither of its steps changes the store.
C14_GetById ==
  [][\A t \in Tasks :
       /\ \A id \in UUIDs :
            getTodoById(t, id)
              => /\ Store' = Store
                 /\ task'[t].ref = Null <=> id \notin Range(Ids(Store))
                 /\ task'[t].ref # Null
                      => /\ task'[t].ref \in Range(todos')
                         /\ heap'[task'[t].ref].id = id
       /\ getTodoById_return(t)
            => /\ Store' = Store
               /\ task'[t].outcome = "NotFoundError" <=> task[t].ref = Null
               /\ task[t].ref # Null
                    => /\ task'[t].outcome = "ok"
                       /\ task'[t].ref \in Range(todos')
                       /\ heap'[task'[t].ref] = heap[task[t].ref]]_vars

\* C14 witness: getTodoById has failed with NotFoundError on a store that
\* holds a Todo with another id.
C14_Witness ==
  /\ Len(todos) >= 1
  /\ \E t \in Tasks : /\ task[t].op = "getTodoById"
                      /\ task[t].outcome = "NotFoundError"

\* The stored record a suspended updateTodo is about to replace.
Target(t) == Store[IndexOf(Store, task[t].id)]

\* C12: updateTodo(id, {}) on a stored Todo replaces it by a record with the
\* same title and completed and an updatedAt that is not smaller than the
\* previous one, and then returns that record without error.
C12_EmptyUpdate ==
  [][\A t \in Tasks :
       (request.route = "updateTodo" /\ request.body = NoData)
         => /\ (updateTodo_update(t, NoData) /\ task[t].ref # Null)
                 => /\ task[t].id \in Range(Ids(Store))
                    /\ task'[t].pc = "await_update"
                    /\ task'[t].ref \in Range(todos')
                    /\ heap'[task'[t].ref].id = task[t].id
                    /\ heap'[task'[t].ref].title = Target(t).title
                    /\ heap'[task'[t].ref].completed = Target(t).completed
                    /\ StrLeq(Target(t).updatedAt, heap'[task'[t].ref].updatedAt)
            /\ (updateTodo_return(t) /\ task[t].ref # Null)
                 => /\ task'[t].outcome = "ok"
                    /\ heap'[task'[t].ref] = heap[task[t].ref]
                    /\ Store' = Store]_vars

\* C12 witness: PATCH with body {} was answered with a completed Todo whose
\* updatedAt is later than its createdAt.
C12_Witness ==
  /\ request.route = "updateTodo" /\ request.body = NoData
  /\ reply.status = 200
  /\ reply.body.data.completed
  /\ reply.body.data.createdAt = toISOString(Epoch)
  /\ reply.body.data.updatedAt = toISOString(Epoch + 1)

CompletedTrue == [title |-> Absent, completed |-> Some(TRUE)]

\* PATCH {completed: true} on a stored Todo: the new record keeps the title,
\* has completed = true, and the answer is 200 with that record.  Its
\* updatedAt differs from the previous one (strict), or is the time of the
\* update and not smaller than the previous one.
PatchCompleted(strict) ==
  \A t \in Tasks :
    (request.route = "updateTodo" /\ request.body = CompletedTrue)
      => /\ (updateTodo_update(t, request.body) /\ task[t].ref # Null)
              => /\ task[t].id \in Range(Ids(Store))
                 /\ task'[t].pc = "await_update"
                 /\ task'[t].ref \in Range(todos')
                 /\ heap'[task'[t].ref].title = Target(t).title
                 /\ heap'[task'[t].ref].completed = TRUE
                 /\ IF strict
                    THEN heap'[task'[t].ref].updatedAt # Target(t).updatedAt
                    ELSE /\ heap'[task'[t].ref].updatedAt = toISOString(clock)
                         /\ StrLeq(Target(t).updatedAt,
                                   heap'[task'[t].ref].updatedAt)
         /\ (updateTodo_return(t) /\ task[t].ref # Null)
              => /\ reply'.status = 200
                 /\ DOMAIN reply'.body = {"data"}
                 /\ reply'.body.data = heap[task[t].ref]

\* C15 as stated: a successful PATCH {completed: true} answers 200 with the
\* same title, completed = true and an updatedAt different from before.
C15_PatchCompletedAsStated == [][PatchCompleted(TRUE)]_vars

\* C15 amended: the same, with updatedAt set to the time of the update, which
\* is not smaller than the previous value and may equal it.
C15_PatchCompleted == [][PatchCompleted(FALSE)]_vars

\* C15 witness: PATCH {completed: true} was answered 200 with a Todo updated
\* after the clock advanced.
C15_Witness ==
  /\ request.route = "updateTodo" /\ request.body = CompletedTrue
  /\ reply.status = 200
  /\ reply.body.data.completed
  /\ reply.body.data.createdAt = toISOString(Epoch)
  /\ reply.body.data.updatedAt = toISOString(Epoch + 1)
  /\ Len(todos) = 2

\* Errors that are neither an AppError nor a schema validation failure.
OtherErrors ==
  {[name |-> n, message |-> m, statusCode |-> c,
    isAppError |-> FALSE, validation |-> FALSE] :
     n \in {"Error", "TypeError", "SyntaxError"},
     m \in {<<"x">>, <<"y">>},
     c \in {400, 500}}

\* C16: what a TodoService call throws is what the error handler answers:
\* ValidationError 400 and NotFoundError 404, each with the error's own
\* message; a schema validation failure is answered 400; any other error is
\* answered 500; and the statusCode in an error body is the HTTP status.
C16_ErrorsReachHandler ==
  /\ \A t \in Tasks :
       (request.route # "none" /\ task[t].pc = "done")
         => /\ task[t].outcome = "ValidationError"
                 => /\ reply.status = 400
                    /\ reply.body =
                         [error |-> [message |-> BlankTitleMessage,
                                     statusCode |-> 400]]
            /\ task[t].outcome = "NotFoundError"
                 => /\ reply.status = 404
                    /\ reply.body =
                         [error |-> [message |-> NotFoundMessage(request.id),
                                     statusCode |-> 404]]
  /\ (request.route # "none" /\ NoneInFlight /\ reply.status # 0)
       => /\ reply.status = 400
          /\ reply.body.error.statusCode = 400
  /\ reply.status >= 400 => reply.body.error.statusCode = reply.status
  /\ \A e \in OtherErrors :
       /\ errorHandler(e).status = 500
       /\ errorHandler(e).body.error.statusCode = 500

\* C16 witness: DELETE of an id that is not stored was answered 404 while
\* the store holds another Todo.
C16_Witness ==
  /\ request.route = "deleteTodo"
  /\ \E t \in Tasks : task[t].outcome = "NotFoundError"
  /\ reply.status = 404
  /\ Len(todos) >= 1

\* C17: a request whose service call completed without error is answered
\* with the status and body of its controller method: list 200 {data: the
\* Todos}, get 200 {data: todo}, create 201 {data: todo}, update 200
\* {data: todo}, delete 204 with an empty body; and a success status is sent
\* only for a service call that completed without error.
C17_SuccessReplies ==
  /\ \A t \in Tasks :
       (request.route # "none" /\ task[t].pc = "done" /\ task[t].outcome = "ok")
         => CASE request.route = "getTodos" ->
                   /\ reply.status = 200
                   /\ DOMAIN reply.body = {"data"}
                   /\ reply.body.data = Store
              [] request.route = "getTodoById" ->
                   /\ reply.status = 200
                   /\ DOMAIN reply.body = {"data"}
                   /\ reply.body.data = heap[task[t].ref]
                   /\ reply.body.data.id = request.id
              [] request.route = "createTodo" ->
                   /\ reply.status = 201
                   /\ DOMAIN reply.body = {"data"}
                   /\ reply.body.data = heap[task[t].ref]
                   /\ reply.body.data.title = trim(The(request.body.title))
              [] request.route = "updateTodo" ->
                   /\ reply.status = 200
                   /\ DOMAIN reply.body = {"data"}
                   /\ reply.body.data = heap[task[t].ref]
                   /\ reply.body.data.id = request.id
              [] request.route = "deleteTodo" ->
                   /\ reply.status = 204
                   /\ DOMAIN reply.body = {}
  /\ (reply.status >= 200 /\ reply.status < 300)
       => \E t \in Tasks : task[t].pc = "done" /\ task[t].outcome = "ok"

\* C17 witness: POST /api/todos was answered 201 with the second Todo.
C17_Witness ==
  /\ request.route = "createTodo"
  /\ reply.status = 201
  /\ Len(todos) = 2
  /\ reply.body.data = Store[2]

\* Route parameters that fail the format check of their variant.
NotUuid == IdParams \ UUIDs
NotInteger == {"abc", "1.5"}

\* C18: a request whose :id is not a UUID (/api/todos/:id), or not an
\* integer (legacy /todos/:id), is answered 400; no service call starts and
\* the store is unchanged.
C18_BadIdRejected ==
  [][/\ \A id \in NotUuid, body \in Bodies :
          (getTodoByIdRoute(id) \/ updateTodoRoute(id, body) \/ deleteTodoRoute(id))
            => /\ reply'.status = 400
               /\ task' = task
               /\ todos' = todos /\ heap' = heap
     /\ \A param \in NotInteger :
          (legacyPut(param) \/ legacyDelete(param))
            => /\ legacyReply'.status = 400
               /\ legacyTodos' = legacyTodos]_vars

\* C18 witness: PATCH with an :id that is not a UUID and a body the schema
\* accepts was answered 400 while the store holds a Todo.
C18_Witness ==
  /\ request.route = "updateTodo"
  /\ request.id \in NotUuid
  /\ updateTodoSchema(request.body)
  /\ reply.status = 400
  /\ NoneInFlight
  /\ Len(todos) >= 1

\* C19 as stated: the legacy POST /todos answers 201 with the created Todo
\* for a body with a non-empty title, and answers 400 and stores nothing for
\* a body whose title is missing or empty.
C19_LegacyPostValidates ==
  [][\A body \in Bodies :
       legacyPost(body.title)
         => IF body.title # Absent /\ The(body.title) # <<>>
            THEN /\ legacyReply'.status = 201
                 /\ Len(legacyTodos') = Len(legacyTodos) + 1
            ELSE /\ legacyReply'.status = 400
                 /\ legacyTodos' = legacyTodos]_vars

\* C20 as stated: every error response, of the /api/todos routes and of the
\* legacy /todos routes, has the body {error: {message, statusCode}}.
C20_UniformErrorBody ==
  /\ reply.status >= 400
       => /\ DOMAIN reply.body = {"error"}
          /\ DOMAIN reply.body.error = {"message", "statusCode"}
  /\ legacyReply.status >= 400
       => LegacyBodyKeys(legacyReply.kind) = {"error"}

\* C21: when the handler was called with an error that is neither an
\* AppError nor a schema validation failure, the reply is 500 with one fixed
\* body, the same whatever the error's message, class or statusCode.
C21_GenericInternalError ==
  (caught.name # "none" /\ ~caught.isAppError /\ ~caught.validation)
    => /\ reply.status = 500
       /\ reply.body = [error |-> [message |-> <<"internalError">>,
                                   statusCode |-> 500]]

\* C21 witness: the handler answered a TypeError that carries a message of
\* its own and a statusCode of 400.
C21_Witness ==
  /\ caught.name = "TypeError" /\ ~caught.validation
  /\ caught.message = <<"secret">> /\ caught.statusCode = 400
  /\ reply.status = 500

\* C22: whatever POST /api/todos and PATCH /api/todos/:id requests were
\* served, every stored title has at most 200 characters; a request whose
\* body has a title of more than 200 characters, or of none, is answered 400
\* and neither starts a service call nor changes the store.
C22_TitleLength ==
  /\ [](\A i \in 1..Len(Store) : Len(Store[i].title) <= 200)
  /\ [][\A body \in LimitBodies, id \in IdParams :
          ((createTodoRoute(body) \/ updateTodoRoute(id, body))
             /\ body.title # Absent
             /\ (Len(The(body.title)) > 200 \/ Len(The(body.title)) = 0))
            => /\ reply'.status = 400
               /\ task' = task
               /\ todos' = todos /\ heap' = heap]_vars

\* C22 witness: a PATCH with a title of 201 characters was answered 400
\* while the store holds a Todo with a title of 200 characters.
C22_Witness ==
  /\ request.route = "updateTodo"
  /\ request.body.title = Some(Repeat("a", 201))
  /\ reply.status = 400
  /\ \E i \in 1..Len(Store) : Len(Store[i].title) = 200

\* C23: update(id, partialData) on a stored id, as updateTodo calls it,
\* replaces the record in place: title and completed are those of
\* partialData where it has them and the old ones where it has not,
\* updatedAt is the current time, id and createdAt are kept; the list is
\* as long as before, every other record is unchanged, and the record
\* returned is the stored one.
C23_UpdateMergesInPlace ==
  [][\A t \in Tasks, data \in UpdateDtos :
       (updateTodo_update(t, data) /\ task'[t].pc = "await_update"
          /\ task[t].id \in Range(Ids(Store)))
         => LET i == IndexOf(Store, task[t].id)
                partialData == UpdateData(data)
            IN  /\ Len(Store') = Len(Store)
                /\ \A j \in 1..Len(Store) : j # i => Store'[j] = Store[j]
                /\ Store'[i].id = Store[i].id
                /\ Store'[i].createdAt = Store[i].createdAt
                /\ Store'[i].title =
                     IF partialData.title # Absent
                     THEN The(partialData.title) ELSE Store[i].title
                /\ Store'[i].completed =
                     IF partialData.completed # Absent
                     THEN The(partialData.completed) ELSE Store[i].completed
                /\ Store'[i].updatedAt = toISOString(clock)
                /\ task'[t].ref = todos'[i]]_vars

\* C23 witness: the first of two stored Todos has just been updated, after
\* the clock advanced.
C23_Witness ==
  /\ Len(todos) = 2
  /\ \E t \in Tasks : task[t].pc = "await_update" /\ task[t].ref = todos[1]
  /\ Store[1].updatedAt = toISOString(Epoch + 1)
  /\ Store[1].createdAt = toISOString(Epoch)

\* The ids created and not deleted, in the order of their creation.
CreatedNotDeleted == SelectSeq(sequence, LAMBDA id : id \notin removed)

C25_SentinelsForMissingId ==
  [][\A t \in Tasks :
       /\ \A id \in UUIDs :
            (updateTodo(t, id) /\ id \notin Range(Ids(Store)))
              => /\ task'[t].pc = "await_findById"
                 /\ task'[t].ref = Null
                 /\ Store' = Store
       /\ \A data \in UpdateDtos :
            (updateTodo_update(t, data) /\ task[t].ref # Null
               /\ ~(data.title # Absent /\ OnlyWhiteSpace(The(data.title)))
               /\ task[t].id \notin Range(Ids(Store)))
              => /\ task'[t].pc = "await_update"
                 /\ task'[t].ref = Null
                 /\ Store' = Store
       /\ \A id \in UUIDs :
            (deleteTodo(t, id) /\ id \notin Range(Ids(Store)))
              => /\ task'[t].pc = "await_delete"
                 /\ ~task'[t].deleted
                 /\ Store' = Store]_vars

\* C25 witness: update was called for a Todo that another request had
\* deleted since the existence check, and returned null.
C25_Witness ==
  \E t \in Tasks :
    /\ task[t].op = "updateTodo" /\ task[t].pc = "await_update"
    /\ task[t].ref = Null
    /\ log[t].id \in Range(Ids(snap))

\* A suspended call whose repository call did what was asked.
WillSucceed(tk) ==
  \/ tk.pc = "await_create" /\ tk.ref # Null
  \/ tk.pc = "await_update" /\ tk.ref # Null
  \/ tk.pc = "await_delete" /\ tk.deleted

\* C26: a service call that fails has not changed the store: the step in
\* which a call fails leaves the store as it is, and a call that changed
\* the store in an earlier step goes on to complete without error.
C26_FailureLeavesStore ==
  [][\A t \in Tasks :
       /\ (Stepped(t) /\ task'[t].pc = "done" /\ task'[t].outcome # "ok")
            => Store' = Store
       /\ (Stepped(t) /\ Store' # Store) => WillSucceed(task'[t])
       /\ (Stepped(t) /\ WillSucceed(task[t]))
            => (task'[t].outcome = "ok" /\ Store' = Store)]_vars

\* C26 witness: an updateTodo has failed with ValidationError on a store of
\* two Todos, one of them completed.
C26_Witness ==
  /\ Len(todos) = 2
  /\ Store[1].completed /\ ~Store[2].completed
  /\ \E t \in Tasks : /\ task[t].op = "updateTodo"
                      /\ task[t].outcome = "ValidationError"

====
